---- MODULE Spec2Model ----
(***************************************************************************)
(* Presence-based intrusion alarm (script.js, later revision with the      *)
(* alert overlay and the audio unlock).  The browser is single threaded:   *)
(* every action below is one synchronous run of a handler or of the part   *)
(* of an async function between two awaits.                                *)
(*                                                                         *)
(* Distances are in hundredths (0.58 is 58).                               *)
(***************************************************************************)
EXTENDS Integers, Sequences, FiniteSets

\* ---- bounds of the model -------------------------------------------------
MaxFaces == 2     \* faces the engine reports in one frame
NumEmb == 2       \* distinct descriptors the engine can produce
MaxStore == 3     \* descriptors kept in localStorage
MaxRegs == 2      \* registerFace calls suspended at their await
MaxLoops == 2     \* monitorLoop calls suspended or scheduled
MaxPlays == 2     \* play() promises not yet settled
MaxTimers == 2    \* pending 5 s overlay timers
ExtraNoFace == 1  \* how far past NO_FACE_THRESHOLD the counter may run

\* ---- program constants ---------------------------------------------------
NO_FACE_THRESHOLD == 10
MATCH_THRESHOLD == 58

Embeddings == 1..NumEmb
Labels == {"owner_no_mask", "owner_mask", "unknown"}
\* a distance below the threshold and the threshold itself (line 119 only
\* compares with 0.58, so a larger distance acts like 0.58)
Distances == {30, 58}
\* what faceMatcher.findBestMatch can answer for one detection
BestMatches == [label : Labels, distance : Distances]
EventTypes == {"keydown", "mousemove", "click"}

VARIABLES
    storage,            \* localStorage value under 'registeredFaces'
    faceMatcher,
    monitoring,
    consecutiveNoFace,
    ownerAbsent,        \* window.ownerAbsent: "undefined", "true", "false"
    isTabVisible,
    status,             \* status text: first message, then appended notes
    alertOverlay,       \* alertOverlay.style.display
    overlayTimers,      \* pending setTimeout(hide overlay, 5000)
    alertAudio,         \* [currentTime, volume, paused]
    playPromises,       \* unsettled alertAudio.play() promises, oldest first
    listeners,          \* event types document has handleInput registered for
    loopsAwaiting,      \* monitorLoop calls suspended at await detectFaces()
    loopTimers,         \* pending setTimeout(monitorLoop, 50)
    regsAwaiting,       \* registerFace calls suspended at await, by isMasked
    engine,             \* init(): "loading", "ready", "failed"
    video,              \* camera: "none", "playing"
    rebuilds,           \* history: times faceMatcher was assigned
    lastOp              \* history: the handler that ran last and its input

vars == <<storage, faceMatcher, monitoring, consecutiveNoFace, ownerAbsent,
          isTabVisible, status, alertOverlay, overlayTimers, alertAudio,
          playPromises, listeners, loopsAwaiting, loopTimers, regsAwaiting,
          engine, video, rebuilds, lastOp>>

\* ---- localStorage and JSON ----------------------------------------------
\* A stored value: kind "missing" (getItem gives null), "garbage" (not JSON),
\* "falsy" (JSON null, 0, false, ""), or "object" with the keys it has.
StoredObject(hasNo, no, hasWith, with) ==
    [kind |-> "object", hasNo |-> hasNo, no_mask |-> no,
     hasWith |-> hasWith, with_mask |-> with]
StoredOther(kind) ==
    [kind |-> kind, hasNo |-> FALSE, no_mask |-> <<>>,
     hasWith |-> FALSE, with_mask |-> <<>>]
EmptyStored == StoredObject(TRUE, <<>>, TRUE, <<>>)

\* JSON.parse(localStorage.getItem(..)) || { no_mask: [], with_mask: [] }
ParseStored(s) ==
    IF s.kind = "garbage" THEN [threw |-> TRUE, val |-> s]
    ELSE IF s.kind \in {"missing", "falsy"} THEN [threw |-> FALSE, val |-> EmptyStored]
    ELSE [threw |-> FALSE, val |-> s]

StoredSize(s) == Len(s.no_mask) + Len(s.with_mask)

\* ---- FaceMatcher ----------------------------------------------------------
NullMatcher == [isNull |-> TRUE, classes |-> <<>>]
LabeledFaceDescriptors(label, descs) == [label |-> label, descriptors |-> descs]
FaceMatcher(classes) == [isNull |-> FALSE, classes |-> classes]

\* loadFaceMatcher(): the matcher it assigns, or threw (nothing assigned)
loadFaceMatcherMissesMask(s) ==
    LET p == ParseStored(s) IN
    IF p.threw \/ ~p.val.hasNo \/ ~p.val.hasWith
    THEN [threw |-> TRUE, faceMatcher |-> NullMatcher]
    ELSE LET d1 == IF Len(p.val.no_mask) > 0
                   THEN <<LabeledFaceDescriptors("owner_no_mask", p.val.no_mask)>>
                   ELSE <<>>
         IN [threw |-> FALSE,
             faceMatcher |-> IF Len(d1) > 0 THEN FaceMatcher(d1) ELSE NullMatcher]
loadFaceMatcher(s) ==
    LET p == ParseStored(s) IN
    IF p.threw \/ ~p.val.hasNo \/ ~p.val.hasWith
    THEN [threw |-> TRUE, faceMatcher |-> NullMatcher]
    ELSE LET d1 == IF Len(p.val.no_mask) > 0
                   THEN <<LabeledFaceDescriptors("owner_no_mask", p.val.no_mask)>>
                   ELSE <<>>
             d2 == IF Len(p.val.with_mask) > 0
                   THEN Append(d1, LabeledFaceDescriptors("owner_mask", p.val.with_mask))
                   ELSE d1
         IN [threw |-> FALSE,
             faceMatcher |-> IF Len(d2) > 0 THEN FaceMatcher(d2) ELSE NullMatcher]

\* ---- registerFace --------------------------------------------------------
\* line 52: detections.length !== 1 is refused
AtLeastOneFace(dets) == Len(dets) >= 1
ExactlyOneFace(dets) == Len(dets) = 1

\* lines 65-69: stored.with_mask.push(d) or stored.no_mask.push(d)
PushOverwrites(stored, isMasked, d) ==
    IF isMasked THEN [stored EXCEPT !.with_mask = <<d>>]
    ELSE [stored EXCEPT !.no_mask = <<d>>]
PushDescriptor(stored, isMasked, d) ==
    IF isMasked THEN [stored EXCEPT !.with_mask = Append(@, d)]
    ELSE [stored EXCEPT !.no_mask = Append(@, d)]

\* The part of registerFace after its await, run on the detections `dets`
\* (a sequence of descriptors).  outcome: "rejected" (line 53-54), "threw"
\* (an exception left the function), "ok" (ran to its end).  written: whether
\* setItem ran before the end or the exception.
registerFace(s, isMasked, dets) ==
    LET p == ParseStored(s)
        stay == [outcome |-> "threw", written |-> FALSE, storage |-> s]
    IN
    IF ~ExactlyOneFace(dets)
    THEN [outcome |-> "rejected", written |-> FALSE, storage |-> s]
    ELSE IF p.threw THEN stay                                   \* line 61
    ELSE IF isMasked /\ ~p.val.hasWith THEN stay                \* line 66
    ELSE IF ~isMasked /\ ~p.val.hasNo THEN stay                 \* line 68
    ELSE LET pushed == PushDescriptor(p.val, isMasked, dets[1]) IN
         IF ~pushed.hasNo \/ ~pushed.hasWith                    \* line 72
         THEN [outcome |-> "threw", written |-> TRUE, storage |-> pushed]
         ELSE [outcome |-> "ok", written |-> TRUE, storage |-> pushed]

\* ---- monitorLoop: the verdict of one cycle --------------------------------
OwnerLabels == {"owner_no_mask", "owner_mask"}

\* line 119
IsOwnerMatchInclusive(m) ==
    m.distance <= MATCH_THRESHOLD /\ m.label \in OwnerLabels
IsOwnerMatch(m) ==
    m.distance < MATCH_THRESHOLD /\ m.label \in OwnerLabels

\* lines 109-125: frame is the best match of every detection of the frame
OwnerPresent(frame, fm) ==
    /\ ~fm.isNull
    /\ \E i \in 1..Len(frame) : IsOwnerMatch(frame[i])
IntruderDetected(frame, fm) ==
    /\ ~fm.isNull
    /\ \E i \in 1..Len(frame) :
          ~IsOwnerMatch(frame[i]) /\ frame[i].label # "unknown"

\* lines 112-115
NoFaceKeepsCount(count, frame) ==
    IF Len(frame) = 0 THEN count + 1 ELSE count
NextNoFace(count, frame) ==
    IF Len(frame) = 0 THEN count + 1 ELSE 0

JsBool(b) == IF b THEN "true" ELSE "false"
\* line 151: window.ownerAbsent as a condition (undefined is falsy)
TruthyUnlessFalse(v) == v # "false"
Truthy(v) == v = "true"

\* lines 128-132: window.ownerAbsent after the cycle
VerdictKeepsOnEmpty(prev, present, noFace) ==
    IF noFace > 0 THEN prev ELSE JsBool(~present)
Verdict(prev, present, noFace) ==
    IF noFace >= NO_FACE_THRESHOLD THEN "true" ELSE JsBool(~present)

\* lines 130-139
CycleStatus(present, intruder, noFace) ==
    IF noFace >= NO_FACE_THRESHOLD THEN <<"noFaceLong">>
    ELSE IF intruder THEN <<"intruder">>
    ELSE IF present THEN <<"ownerOk">>
    ELSE <<"ownerAbsent">>

\* ---- the alarm gate -------------------------------------------------------
\* The variables handleInput and the audio unlock write, as one record.
Gate == [status |-> status, alertOverlay |-> alertOverlay,
         overlayTimers |-> overlayTimers, alertAudio |-> alertAudio,
         playPromises |-> playPromises]

SetGate(g) ==
    /\ status' = g.status
    /\ alertOverlay' = g.alertOverlay
    /\ overlayTimers' = g.overlayTimers
    /\ alertAudio' = g.alertAudio
    /\ playPromises' = g.playPromises

GateInBounds(g) ==
    /\ g.overlayTimers <= MaxTimers
    /\ Len(g.playPromises) <= MaxPlays

\* line 151
AlertIgnoresVisibility == Truthy(ownerAbsent)
AlertCondition == Truthy(ownerAbsent) /\ isTabVisible

\* lines 150-172
handleInput(g) ==
    IF AlertCondition
    THEN [g EXCEPT !.status = <<"ALARM">>,
                   !.alertOverlay = "flex",
                   !.overlayTimers = @ + 1,
                   !.alertAudio = [@ EXCEPT !.currentTime = 0, !.paused = FALSE],
                   !.playPromises = Append(@, "alert")]
    ELSE g

\* The host delivers an event of type `type` to document: handleInput runs
\* once per registration of that type.
RECURSIVE DispatchTo(_, _, _)
DispatchTo(regs, type, g) ==
    IF regs = <<>> THEN g
    ELSE DispatchTo(Tail(regs), type,
                    IF Head(regs) = type THEN handleInput(g) ELSE g)
Dispatch(type, g) == DispatchTo(listeners, type, g)

RECURSIVE Count(_, _)
Count(seq, x) ==
    IF seq = <<>> THEN 0
    ELSE (IF Head(seq) = x THEN 1 ELSE 0) + Count(Tail(seq), x)

\* document.addEventListener / removeEventListener with the same callback
RECURSIVE RemoveFirst(_, _)
RemoveFirst(regs, type) ==
    IF regs = <<>> THEN <<>>
    ELSE IF Head(regs) = type THEN Tail(regs)
    ELSE <<Head(regs)>> \o RemoveFirst(Tail(regs), type)
removeEventListener(regs, type) == RemoveFirst(regs, type)
addEventListener(regs, type) ==
    IF Count(regs, type) > 0 THEN regs ELSE Append(regs, type)

\* lines 203-208
RegisterWithoutDedup(regs) == regs \o <<"keydown", "mousemove", "click">>
RegisterInputHandlers(regs) ==
    LET r1 == removeEventListener(regs, "keydown")
        r2 == removeEventListener(r1, "mousemove")
        r3 == removeEventListener(r2, "click")
        a1 == addEventListener(r3, "keydown")
        a2 == addEventListener(a1, "mousemove")
    IN addEventListener(a2, "click")

\* ---- history ---------------------------------------------------------------
\* op: the step taken; faces: detections of the frame it ran on; ownerMatch:
\* whether a matcher existed and some detection of that frame had an owner
\* label at a distance strictly below 0.58; calls: times handleInput ran;
\* isMasked, desc: the enrollment's mask state and descriptor; outcome: how
\* the handler ended.
Op(op, faces, ownerMatch, calls, isMasked, desc, outcome) ==
    [op |-> op, faces |-> faces, ownerMatch |-> ownerMatch, calls |-> calls,
     isMasked |-> isMasked, desc |-> desc, outcome |-> outcome]
PlainOp(op) == Op(op, 0, FALSE, 0, FALSE, 0, "ok")

FrameHasOwner(frame, fm) ==
    /\ ~fm.isNull
    /\ \E i \in 1..Len(frame) :
          /\ frame[i].label \in {"owner_no_mask", "owner_mask"}
          /\ frame[i].distance < 58

\* ---- initial state: the script has run, init() is awaiting loadModels() ----
InitialStorages ==
    {StoredOther("missing"), StoredOther("falsy"), StoredOther("garbage"),
     StoredObject(FALSE, <<>>, FALSE, <<>>),
     StoredObject(TRUE, <<1>>, FALSE, <<>>),
     EmptyStored,
     StoredObject(TRUE, <<1>>, TRUE, <<>>)}

Init ==
    /\ storage \in InitialStorages
    /\ faceMatcher = NullMatcher
    /\ monitoring = FALSE
    /\ consecutiveNoFace = 0
    /\ ownerAbsent = "undefined"
    /\ isTabVisible = TRUE
    /\ status = <<"initial">>
    /\ alertOverlay = "unset"
    /\ overlayTimers = 0
    /\ alertAudio = [currentTime |-> 0, volume |-> 1, paused |-> TRUE]
    /\ playPromises = <<>>
    /\ listeners = <<>>
    /\ loopsAwaiting = 0
    /\ loopTimers = 0
    /\ regsAwaiting = [m \in BOOLEAN |-> 0]
    /\ engine = "loading"
    /\ video = "none"
    /\ rebuilds = 0
    /\ lastOp = PlainOp("load")

\* ---- the detection engine --------------------------------------------------
\* detectFaces() resolves only once the models are loaded, and sees faces only
\* while the camera plays.
CanDetect == engine = "ready"
Seen(frames) == {f \in frames : video = "playing" \/ Len(f) = 0}

\* what registerFace reads of a frame: the descriptor of every detection
DescriptorFrames == UNION {[1..k -> Embeddings] : k \in 0..MaxFaces}

\* what monitorLoop reads of a frame: findBestMatch's answer for every
\* detection.  Lines 116-125 only raise two flags over the detections, so a
\* frame is taken up to the order of its detections (sorted by MatchRank).
MatchRank(m) ==
    m.distance + (IF m.label = "owner_no_mask" THEN 0
                  ELSE IF m.label = "owner_mask" THEN 100 ELSE 200)
MatchFrames ==
    {f \in UNION {[1..k -> BestMatches] : k \in 0..MaxFaces} :
        \A i \in 1..(Len(f) - 1) : MatchRank(f[i]) <= MatchRank(f[i + 1])}
\* the frames of a camera that always shows exactly one face
OneFaceFrames == {f \in MatchFrames : Len(f) = 1}

\* ---- init() ----------------------------------------------------------------
\* lines 212-219, with loadModels (20-27) and startCamera (30-40)
initModelsFail ==
    /\ engine = "loading"
    /\ engine' = "failed"
    /\ lastOp' = Op("initModelsFail", 0, FALSE, 0, FALSE, 0, "threw")
    /\ UNCHANGED <<storage, faceMatcher, monitoring, consecutiveNoFace,
                   ownerAbsent, isTabVisible, status, alertOverlay,
                   overlayTimers, alertAudio, playPromises, listeners,
                   loopsAwaiting, loopTimers, regsAwaiting, video, rebuilds>>

init ==
    /\ engine = "loading"
    /\ engine' = "ready"
    /\ \E cameraOk \in BOOLEAN :
         LET lf == loadFaceMatcher(storage)
             s1 == IF cameraOk THEN <<"modelsLoaded">> ELSE <<"cameraError">>
         IN /\ video' = IF cameraOk THEN "playing" ELSE "none"
            /\ IF lf.threw
               THEN /\ UNCHANGED <<faceMatcher, rebuilds>>
                    /\ status' = s1
                    /\ lastOp' = Op("init", 0, FALSE, 0, FALSE, 0, "threw")
               ELSE /\ faceMatcher' = lf.faceMatcher
                    /\ rebuilds' = rebuilds + 1
                    /\ status' = IF lf.faceMatcher.isNull THEN s1
                                 ELSE <<"pastRegistration">>
                    /\ lastOp' = PlainOp("init")
    /\ UNCHANGED <<storage, monitoring, consecutiveNoFace, ownerAbsent,
                   isTabVisible, alertOverlay, overlayTimers, alertAudio,
                   playPromises, listeners, loopsAwaiting, loopTimers,
                   regsAwaiting>>

\* ---- enrollment -------------------------------------------------------------
RegsPending == regsAwaiting[FALSE] + regsAwaiting[TRUE]

\* lines 175-176 and 50-51: the click starts registerFace, which suspends at
\* await detectFaces(); the click then bubbles to document.
registerClick ==
    \E isMasked \in BOOLEAN :
        LET g == Dispatch("click", Gate) IN
        /\ RegsPending < MaxRegs
        /\ StoredSize(storage) + RegsPending < MaxStore
        /\ GateInBounds(g)
        /\ regsAwaiting' = [regsAwaiting EXCEPT ![isMasked] = @ + 1]
        /\ SetGate(g)
        /\ lastOp' = Op("registerClick", 0, FALSE, Count(listeners, "click"),
                        isMasked, 0, "ok")
        /\ UNCHANGED <<storage, faceMatcher, monitoring, consecutiveNoFace,
                       ownerAbsent, isTabVisible, listeners, loopsAwaiting,
                       loopTimers, engine, video, rebuilds>>

\* lines 52-74: detectFaces() resolved with dets
registerResume ==
    \E isMasked \in BOOLEAN, dets \in Seen(DescriptorFrames) :
        LET r == registerFace(storage, isMasked, dets)
            lf == loadFaceMatcher(r.storage)
            d == IF Len(dets) > 0 THEN dets[1] ELSE 0
        IN
        /\ CanDetect
        /\ regsAwaiting[isMasked] > 0
        /\ regsAwaiting' = [regsAwaiting EXCEPT ![isMasked] = @ - 1]
        /\ storage' = r.storage
        /\ IF r.outcome = "ok"
           THEN /\ status' = <<IF isMasked THEN "registeredMask"
                               ELSE "registeredNoMask">>
                /\ IF lf.threw THEN UNCHANGED <<faceMatcher, rebuilds>>
                   ELSE /\ faceMatcher' = lf.faceMatcher
                        /\ rebuilds' = rebuilds + 1
           ELSE UNCHANGED <<status, faceMatcher, rebuilds>>
        /\ lastOp' = Op("registerResume", Len(dets), FALSE, 0, isMasked, d,
                        r.outcome)
        /\ UNCHANGED <<monitoring, consecutiveNoFace, ownerAbsent, isTabVisible,
                       alertOverlay, overlayTimers, alertAudio, playPromises,
                       listeners, loopsAwaiting, loopTimers, engine, video>>

\* line 51: detectFaces() rejected, registerFace ends with the exception
registerDetectFails ==
    \E isMasked \in BOOLEAN :
        /\ regsAwaiting[isMasked] > 0
        /\ regsAwaiting' = [regsAwaiting EXCEPT ![isMasked] = @ - 1]
        /\ lastOp' = Op("registerDetectFails", 0, FALSE, 0, isMasked, 0, "threw")
        /\ UNCHANGED <<storage, faceMatcher, monitoring, consecutiveNoFace,
                       ownerAbsent, isTabVisible, status, alertOverlay,
                       overlayTimers, alertAudio, playPromises, listeners,
                       loopsAwaiting, loopTimers, engine, video, rebuilds>>

\* ---- start of monitoring ---------------------------------------------------
\* line 179
StartNeverRefused(fm) == FALSE
StartRefused(fm) == fm.isNull

\* alertAudio.play(): the element leaves the paused state, the promise is
\* pending until the host settles it
\* lines 186-188
StartSync(g) ==
    [g EXCEPT !.alertAudio = [currentTime |-> 0, volume |-> 0, paused |-> FALSE],
              !.playPromises = Append(@, "unlock")]

UnlocksPending == Count(playPromises, "unlock") + Count(playPromises, "unlockAborted")

\* lines 178-188: the click on the start button, up to the await; the click
\* then bubbles to document.
startMonitorClick ==
    /\ IF StartRefused(faceMatcher)
       THEN LET g == Dispatch("click", Gate) IN
            /\ GateInBounds(g)
            /\ SetGate(g)
            /\ lastOp' = Op("startClick", 0, FALSE, Count(listeners, "click"),
                            FALSE, 0, "refused")
       ELSE LET g == Dispatch("click", StartSync(Gate)) IN
            /\ UnlocksPending + loopsAwaiting + loopTimers < MaxLoops
            /\ GateInBounds(g)
            /\ SetGate(g)
            /\ lastOp' = Op("startClick", 0, FALSE, Count(listeners, "click"),
                            FALSE, 0, "accepted")
    /\ UNCHANGED <<storage, faceMatcher, monitoring, consecutiveNoFace,
                   ownerAbsent, isTabVisible, listeners, loopsAwaiting,
                   loopTimers, regsAwaiting, engine, video, rebuilds>>

\* alertAudio.pause(): the element is paused and the pending play() promises
\* are rejected (AbortError)
Aborted(kind) ==
    IF kind \in {"unlock", "unlockAborted"} THEN "unlockAborted" ELSE "alertAborted"
AbortAll(promises) == [i \in 1..Len(promises) |-> Aborted(promises[i])]

\* line 97-100, called: does the call suspend at detectFaces()?
MonitorLoopReturns(flag) == FALSE
MonitorLoopEnters(flag) == flag

\* lines 185-196: a rejection of the awaited play() is caught at line 193, so
\* after the try statement the handler goes on with line 198 in both cases
UnlockFailureEscapes(ok) == ok
UnlockHandled(ok) == TRUE

\* line 198: the value monitoring gets
MonitoringToggled(flag) == ~flag
MonitoringStarted(flag) == TRUE

\* lines 189-208: the start handler after its await, play() fulfilled (ok) or
\* rejected.  lastOp.outcome tells how play() settled: "ok" or "blocked".
startMonitorResume(ok) ==
    LET noted == Append(status, IF ok THEN "audioOK" ELSE "audioBlocked")
        rest == Tail(playPromises)
        go == UnlockHandled(ok)
        flag == MonitoringStarted(monitoring)
    IN
    /\ alertAudio' = IF ok THEN [alertAudio EXCEPT !.currentTime = 1,
                                                     !.paused = TRUE, !.volume = 1]
                     ELSE alertAudio
    /\ playPromises' = IF ok /\ ~alertAudio.paused THEN AbortAll(rest) ELSE rest
    /\ monitoring' = IF go THEN flag ELSE monitoring
    /\ status' = IF go THEN <<"monitorStart">> ELSE status
    /\ loopsAwaiting' = IF go /\ MonitorLoopEnters(flag) THEN loopsAwaiting + 1
                        ELSE loopsAwaiting
    /\ listeners' = IF go THEN RegisterInputHandlers(listeners) ELSE listeners
    /\ lastOp' = Op("startResume", 0, FALSE, 0, FALSE, 0,
                    IF ok THEN "ok" ELSE "blocked")
    /\ UNCHANGED <<storage, faceMatcher, consecutiveNoFace, ownerAbsent,
                   isTabVisible, alertOverlay, overlayTimers, loopTimers,
                   regsAwaiting, engine, video, rebuilds>>

\* lines 165-170: the alert's play() promise settles
alertPlaySettles(ok) ==
    /\ playPromises' = Tail(playPromises)
    /\ status' = IF ok THEN status ELSE Append(status, "audioHint")
    /\ lastOp' = Op("alertPlay", 0, FALSE, 0, FALSE, 0,
                    IF ok THEN "ok" ELSE "failed")
    /\ alertAudio' = IF ok THEN [alertAudio EXCEPT !.currentTime = 1]
                     ELSE alertAudio
    /\ UNCHANGED <<storage, faceMatcher, monitoring, consecutiveNoFace,
                   ownerAbsent, isTabVisible, alertOverlay, overlayTimers,
                   listeners, loopsAwaiting, loopTimers, regsAwaiting, engine,
                   video, rebuilds>>

\* The host settles the oldest pending play() promise; a fulfilled promise
\* means playback runs, so currentTime has left 0.
playFulfilled ==
    /\ playPromises # <<>>
    /\ \/ Head(playPromises) = "unlock" /\ startMonitorResume(TRUE)
       \/ Head(playPromises) = "alert" /\ alertPlaySettles(TRUE)

playRejected ==
    /\ playPromises # <<>>
    /\ \/ Head(playPromises) \in {"unlock", "unlockAborted"} /\ startMonitorResume(FALSE)
       \/ Head(playPromises) \in {"alert", "alertAborted"} /\ alertPlaySettles(FALSE)

\* ---- monitorLoop -------------------------------------------------------------
\* lines 100-141: detectFaces() resolved; frame holds findBestMatch's answer
\* for every detection
monitorLoopResumeOn(frames) ==
    /\ CanDetect
    /\ loopsAwaiting > 0
    /\ \E frame \in Seen(frames) :
        LET present == OwnerPresent(frame, faceMatcher)
            intruder == IntruderDetected(frame, faceMatcher)
            noFace == NextNoFace(consecutiveNoFace, frame)
        IN
        /\ noFace <= NO_FACE_THRESHOLD + ExtraNoFace
        /\ consecutiveNoFace' = noFace
        /\ ownerAbsent' = Verdict(ownerAbsent, present, noFace)
        /\ status' = CycleStatus(present, intruder, noFace)
        /\ lastOp' = Op("cycle", Len(frame), FrameHasOwner(frame, faceMatcher),
                        0, FALSE, 0, "ok")
    /\ loopsAwaiting' = loopsAwaiting - 1
    /\ loopTimers' = loopTimers + 1
    /\ UNCHANGED <<storage, faceMatcher, monitoring, isTabVisible,
                   alertOverlay, overlayTimers, alertAudio, playPromises,
                   listeners, regsAwaiting, engine, video, rebuilds>>

monitorLoopResume == monitorLoopResumeOn(MatchFrames)

\* line 100: detectFaces() rejected, this monitorLoop call ends with the
\* exception before line 141
monitorLoopDetectFails ==
    /\ loopsAwaiting > 0
    /\ loopsAwaiting' = loopsAwaiting - 1
    /\ lastOp' = Op("cycleDetectFails", 0, FALSE, 0, FALSE, 0, "threw")
    /\ UNCHANGED <<storage, faceMatcher, monitoring, consecutiveNoFace,
                   ownerAbsent, isTabVisible, status, alertOverlay,
                   overlayTimers, alertAudio, playPromises, listeners,
                   loopTimers, regsAwaiting, engine, video, rebuilds>>

\* line 141's timer fires: monitorLoop() is called again (lines 97-100)
monitorLoopTimer ==
    /\ loopTimers > 0
    /\ loopTimers' = loopTimers - 1
    /\ loopsAwaiting' = IF MonitorLoopEnters(monitoring) THEN loopsAwaiting + 1
                        ELSE loopsAwaiting
    /\ lastOp' = PlainOp("loopTimer")
    /\ UNCHANGED <<storage, faceMatcher, monitoring, consecutiveNoFace,
                   ownerAbsent, isTabVisible, status, alertOverlay,
                   overlayTimers, alertAudio, playPromises, listeners,
                   regsAwaiting, engine, video, rebuilds>>

\* ---- input events -------------------------------------------------------------
\* lines 146-148
visibilitychange ==
    /\ isTabVisible' = ~isTabVisible
    /\ lastOp' = PlainOp("visibilitychange")
    /\ UNCHANGED <<storage, faceMatcher, monitoring, consecutiveNoFace,
                   ownerAbsent, status, alertOverlay, overlayTimers, alertAudio,
                   playPromises, listeners, loopsAwaiting, loopTimers,
                   regsAwaiting, engine, video, rebuilds>>

\* a key press, a pointer move or a click elsewhere on the page
inputEvent ==
    \E type \in EventTypes :
        LET g == Dispatch(type, Gate) IN
        /\ Count(listeners, type) > 0
        /\ GateInBounds(g)
        /\ SetGate(g)
        /\ lastOp' = Op("input", 0, FALSE, Count(listeners, type), FALSE, 0, "ok")
        /\ UNCHANGED <<storage, faceMatcher, monitoring, consecutiveNoFace,
                       ownerAbsent, isTabVisible, listeners, loopsAwaiting,
                       loopTimers, regsAwaiting, engine, video, rebuilds>>

\* lines 159-161: a 5 s overlay timer fires
overlayTimer ==
    /\ overlayTimers > 0
    /\ overlayTimers' = overlayTimers - 1
    /\ alertOverlay' = "none"
    /\ lastOp' = PlainOp("overlayTimer")
    /\ UNCHANGED <<storage, faceMatcher, monitoring, consecutiveNoFace,
                   ownerAbsent, isTabVisible, status, alertAudio, playPromises,
                   listeners, loopsAwaiting, loopTimers, regsAwaiting, engine,
                   video, rebuilds>>

EnrollSteps ==
    \/ initModelsFail
    \/ init
    \/ registerClick
    \/ registerResume
    \/ registerDetectFails

StartSteps ==
    \/ startMonitorClick
    \/ playFulfilled
    \/ playRejected

LoopSteps ==
    \/ monitorLoopResume
    \/ monitorLoopDetectFails
    \/ monitorLoopTimer

Next ==
    \/ EnrollSteps
    \/ StartSteps
    \/ LoopSteps
    \/ visibilitychange
    \/ inputEvent
    \/ overlayTimer

Spec == Init /\ [][Next]_vars

\* Enrollment and the start of monitoring.  The steps left out (the cycles of
\* monitorLoop, visibility changes, the overlay timer) write none of storage,
\* faceMatcher, regsAwaiting, rebuilds, monitoring, listeners.
NextEnroll == EnrollSteps \/ StartSteps \/ inputEvent
SpecEnroll == Init /\ [][NextEnroll]_vars

\* The monitoring loop with an owner enrolled in an earlier session.
InitEnrolled == Init /\ storage = StoredObject(TRUE, <<1>>, TRUE, <<>>)
NextLoop ==
    \/ initModelsFail
    \/ init
    \/ StartSteps
    \/ LoopSteps
    \/ overlayTimer
SpecLoop == InitEnrolled /\ [][NextLoop]_vars

\* The alarm gate, with a camera that shows exactly one face in every frame
\* (the owner or someone else), so that consecutiveNoFace stays 0.
NextGate ==
    \/ initModelsFail
    \/ init
    \/ StartSteps
    \/ monitorLoopResumeOn(OneFaceFrames)
    \/ monitorLoopDetectFails
    \/ monitorLoopTimer
    \/ overlayTimer
    \/ visibilitychange
    \/ inputEvent
SpecGate == InitEnrolled /\ [][NextGate]_vars

\* The monitoring loop of an enrolled owner under a fair host: every
\* detectFaces() call of the loop is fulfilled and every pending 50 ms timer
\* fires.
NextLive ==
    \/ initModelsFail
    \/ init
    \/ StartSteps
    \/ monitorLoopResume
    \/ monitorLoopTimer
SpecLive ==
    /\ InitEnrolled
    /\ [][NextLive]_vars
    /\ WF_vars(monitorLoopResume)
    /\ WF_vars(monitorLoopTimer)

\* ==== the claims ==============================================================

\* The steps of Next that ran handleInput (lastOp'.calls times).
AlertsPending(promises) == Count(promises, "alert") + Count(promises, "alertAborted")

\* C1: every input event delivered to handleInput fires the alert sequence
\* (alarm status, overlay shown with its 5 s timer, audio rewound and played)
\* if and only if ownerAbsent is true and the tab is visible at that moment;
\* when either is false nothing of the alert sequence happens.
C1_AlertIffAbsentAndVisible ==
    [][lastOp'.calls > 0 =>
         IF ownerAbsent = "true" /\ isTabVisible
         THEN /\ status' = <<"ALARM">>
              /\ alertOverlay' = "flex"
              /\ overlayTimers' = overlayTimers + lastOp'.calls
              /\ alertAudio'.currentTime = 0
              /\ ~alertAudio'.paused
              /\ Len(playPromises') >= Len(playPromises) + lastOp'.calls
              /\ playPromises'[Len(playPromises')] = "alert"
         ELSE /\ status' = status
              /\ alertOverlay' = alertOverlay
              /\ overlayTimers' = overlayTimers
              /\ AlertsPending(playPromises') = AlertsPending(playPromises)
              /\ lastOp'.op = "input" =>
                     alertAudio' = alertAudio /\ playPromises' = playPromises]_vars

C1_Witness ==
    /\ lastOp.op = "input"
    /\ lastOp.calls = 1
    /\ ownerAbsent = "true"
    /\ isTabVisible
    /\ status = <<"ALARM">>
    /\ alertOverlay = "flex"
    /\ ~alertAudio.paused

\* C2: whenever an input handler can run (in every state between the
\* synchronous steps), consecutiveNoFace >= 10 implies ownerAbsent is true.
C2_NoFaceFailSafe ==
    consecutiveNoFace >= NO_FACE_THRESHOLD => ownerAbsent = "true"

C2_Witness ==
    /\ consecutiveNoFace >= NO_FACE_THRESHOLD
    /\ lastOp.op = "cycle"
    /\ status = <<"noFaceLong">>

\* C3: at the end of a cycle on a non-empty frame, ownerAbsent is false if and
\* only if some detection's best match has an owner label at a distance
\* strictly below 0.58, and true otherwise.
C3_VerdictFromFrame ==
    (lastOp.op = "cycle" /\ lastOp.faces > 0) =>
        /\ ownerAbsent = "false" <=> lastOp.ownerMatch
        /\ ownerAbsent = "true" <=> ~lastOp.ownerMatch

C3_Witness ==
    /\ lastOp.op = "cycle"
    /\ lastOp.faces = 2
    /\ lastOp.ownerMatch
    /\ ownerAbsent = "false"
    /\ status = <<"intruder">>

\* C4: a cycle with at least one detection sets consecutiveNoFace to 0 and does
\* not take the no-face fail-safe branch, also when no detection matches (then
\* ownerAbsent is true); a cycle with no detection adds exactly 1.
C4_CounterCountsEmptyFrames ==
    [][lastOp'.op = "cycle" =>
         IF lastOp'.faces = 0
         THEN consecutiveNoFace' = consecutiveNoFace + 1
         ELSE /\ consecutiveNoFace' = 0
              /\ status' # <<"noFaceLong">>
              /\ ~lastOp'.ownerMatch => ownerAbsent' = "true"]_vars

C4_Witness ==
    /\ lastOp.op = "cycle"
    /\ lastOp.faces > 0
    /\ ~lastOp.ownerMatch
    /\ consecutiveNoFace = 0
    /\ ownerAbsent = "true"
    /\ status = <<"ownerAbsent">>

\* C5: at most one monitoring cycle is in flight (awaiting detection) or
\* scheduled (pending 50 ms timer) at a time.
C5_CyclesNeverOverlap == loopsAwaiting + loopTimers <= 1

\* C6: a start command issued while the matcher is null is refused: monitoring
\* stays false, no audio unlock and no monitoring cycle is started or
\* scheduled, and no input handlers are registered.
C6_StartRefusedWithoutMatcher ==
    [][(lastOp'.op = "startClick" /\ faceMatcher.isNull) =>
         /\ ~monitoring /\ ~monitoring'
         /\ loopsAwaiting' = 0 /\ loopTimers' = 0
         /\ listeners' = <<>>
         /\ playPromises' = <<>>
         /\ alertAudio' = alertAudio
         /\ status' = status]_vars

C6_Witness ==
    /\ lastOp.op = "startClick"
    /\ lastOp.outcome = "refused"
    /\ engine = "ready"
    /\ faceMatcher.isNull
    /\ ~monitoring

\* C7: an enrollment whose frame holds zero faces or two or more faces changes
\* nothing: the persisted store, the matcher and the status are as before, for
\* either mask state.
C7_WrongFaceCountRejected ==
    [][(lastOp'.op = "registerResume" /\ lastOp'.faces # 1) =>
         /\ storage' = storage
         /\ faceMatcher' = faceMatcher
         /\ rebuilds' = rebuilds
         /\ status' = status]_vars

C7_Witness ==
    /\ lastOp.op = "registerResume"
    /\ lastOp.faces = 2
    /\ lastOp.isMasked
    /\ StoredSize(storage) > 0

\* The store load() yields: the persisted one, or the empty store when the
\* persisted value is missing or malformed.
LoadedStore(s) ==
    IF s.kind = "object" /\ s.hasNo /\ s.hasWith THEN s ELSE EmptyStored

MatcherLabels(fm) == {fm.classes[i].label : i \in 1..Len(fm.classes)}

MatcherMatchesStore ==
    LET st == LoadedStore(storage)
        want == {l \in {"owner_no_mask"} : st.no_mask # <<>>}
                \cup {l \in {"owner_mask"} : st.with_mask # <<>>}
    IN /\ faceMatcher.isNull <=> (st.no_mask = <<>> /\ st.with_mask = <<>>)
       /\ MatcherLabels(faceMatcher) = want
       /\ Len(faceMatcher.classes) = Cardinality(want)
       /\ \A i \in 1..Len(faceMatcher.classes) :
            faceMatcher.classes[i].descriptors =
                IF faceMatcher.classes[i].label = "owner_no_mask"
                THEN st.no_mask ELSE st.with_mask

\* C8: after initialisation and after every enrollment that ran to its end the
\* matcher is the one built from the store (null iff both sub-sequences are
\* empty, else one class per non-empty mask state); it is rebuilt exactly once
\* by such an enrollment and not at all by a rejected one.
C8_MatcherIsBuiltFromStore ==
    /\ [](engine = "ready" => MatcherMatchesStore)
    /\ [][lastOp'.op = "registerResume" =>
            /\ lastOp'.outcome = "ok" => rebuilds' = rebuilds + 1
            /\ lastOp'.faces # 1 =>
                   rebuilds' = rebuilds /\ faceMatcher' = faceMatcher]_vars

C8_Witness ==
    /\ lastOp.op = "registerResume"
    /\ lastOp.outcome = "ok"
    /\ Len(faceMatcher.classes) = 2
    /\ rebuilds = 3

\* C9: every enrollment that ran to its end appended exactly its descriptor to
\* the sub-sequence of its mask state of the persisted store, left the other
\* sub-sequence and the earlier descriptors as they were and dropped no
\* duplicate; no other step writes the store, whatever is pending meanwhile.
C9_AppendExactlyOne ==
    [][/\ (lastOp'.op = "registerResume" /\ lastOp'.outcome = "ok") =>
            LET before == LoadedStore(storage) IN
            /\ lastOp'.faces = 1
            /\ storage'.kind = "object" /\ storage'.hasNo /\ storage'.hasWith
            /\ IF lastOp'.isMasked
               THEN /\ storage'.with_mask = Append(before.with_mask, lastOp'.desc)
                    /\ storage'.no_mask = before.no_mask
               ELSE /\ storage'.no_mask = Append(before.no_mask, lastOp'.desc)
                    /\ storage'.with_mask = before.with_mask
       /\ lastOp'.op # "registerResume" => storage' = storage]_vars

C9_Witness ==
    /\ lastOp.op = "registerResume"
    /\ lastOp.outcome = "ok"
    /\ RegsPending > 0
    /\ storage.no_mask = <<1, 1>>

\* C10: loading the store never fails: neither init() nor registerFace() ends
\* with an exception raised while reading the persisted value.
C10_LoadNeverThrows ==
    ~(lastOp.op \in {"init", "registerResume"} /\ lastOp.outcome = "threw")

\* C11: when the audio unlock's play() is rejected during an accepted start,
\* the rejection is caught and the start goes on: monitoring is true, one more
\* monitoring cycle is in flight and handleInput is registered for keydown,
\* mousemove and click.
C11_UnlockFailureStillStarts ==
    [][(lastOp'.op = "startResume" /\ lastOp'.outcome = "blocked") =>
         /\ monitoring'
         /\ loopsAwaiting' = loopsAwaiting + 1
         /\ \A type \in EventTypes : Count(listeners', type) >= 1
         /\ status' = <<"monitorStart">>]_vars

C11_Witness ==
    /\ lastOp.op = "startResume"
    /\ lastOp.outcome = "blocked"
    /\ monitoring
    /\ loopsAwaiting = 1
    /\ Len(listeners) = 3

\* C12: once a start whose audio unlock failed has completed, the status text
\* shows the audio-blocked notice.
C12_UnlockFailureReported ==
    (lastOp.op = "startResume" /\ lastOp.outcome = "blocked") =>
        Count(status, "audioBlocked") > 0

\* C13: the overlay is visible during the 5 s after every alert firing, that
\* is, as long as the hide timer of some firing is still pending (the timers
\* have the same delay, so they fire in the order of the firings).
C13_OverlayShownForFiveSeconds ==
    overlayTimers > 0 => alertOverlay = "flex"

\* C14: after any number of accepted starts handleInput is registered at most
\* once per event type, so every physical input event runs it exactly once
\* and starts at most one alert sequence.
C14_RegisterOnce ==
    /\ [](\A type \in EventTypes : Count(listeners, type) <= 1)
    /\ [][lastOp'.op = "input" =>
            /\ lastOp'.calls = 1
            /\ overlayTimers' <= overlayTimers + 1
            /\ Len(playPromises') <= Len(playPromises) + 1]_vars

C14_Witness ==
    /\ lastOp.op = "input"
    /\ lastOp.calls = 1
    /\ loopsAwaiting + loopTimers = 2
    /\ status = <<"ALARM">>

\* C15: once monitoring is true it stays true in every later state.
C15_MonitoringIsStartOnly ==
    [][monitoring => monitoring']_vars

C15_Witness ==
    /\ lastOp.op = "startResume"
    /\ monitoring
    /\ loopsAwaiting + loopTimers = 2

\* C16: a cycle on an empty frame that follows a verified owner (ownerAbsent
\* false) leaves ownerAbsent false as long as the counter is below 10.
C16_EmptyCycleKeepsVerdict ==
    [][(/\ lastOp'.op = "cycle"
        /\ lastOp'.faces = 0
        /\ ownerAbsent = "false"
        /\ consecutiveNoFace' < NO_FACE_THRESHOLD) =>
         ownerAbsent' = "false"]_vars

\* C17: after a rejected detectFaces() of a monitoring cycle either a cycle is
\* still in flight or scheduled, or ownerAbsent is true.
C17_EngineFailureNotFatal ==
    (lastOp.op = "cycleDetectFails" /\ monitoring) =>
        (loopsAwaiting + loopTimers > 0 \/ ownerAbsent = "true")

\* C18: while monitoring runs, every detectFaces() call resolves and every
\* timer fires, each completed cycle schedules exactly one timer, each timer
\* launches exactly one cycle, and cycles complete (the verdict is computed)
\* again and again without end.  The model stops counting empty frames at
\* NO_FACE_THRESHOLD + ExtraNoFace, so a run without a camera is followed up
\* to that count.
C18_LoopRepeatsForever ==
    /\ [][/\ (lastOp'.op = "cycle") =>
                  (loopTimers' = loopTimers + 1 /\ loopsAwaiting' = loopsAwaiting - 1)
          /\ (lastOp'.op = "loopTimer" /\ monitoring) =>
                  (loopTimers' = loopTimers - 1 /\ loopsAwaiting' = loopsAwaiting + 1)]_vars
    /\ [](monitoring =>
            \/ []<>(lastOp.op = "cycle")
            \/ <>(video = "none" /\ consecutiveNoFace = NO_FACE_THRESHOLD + ExtraNoFace))

C18_Witness ==
    /\ lastOp.op = "loopTimer"
    /\ monitoring
    /\ loopsAwaiting = 1
    /\ loopTimers = 0
    /\ consecutiveNoFace = 3
    /\ ownerAbsent = "true"

\* C19: every alert's play() is issued at volume 1, and the pause() of an
\* audio unlock never aborts the play() of an alert.
C19_UnlockNeverSilencesAlert ==
    [][/\ (lastOp'.calls > 0 /\ ownerAbsent = "true" /\ isTabVisible) =>
              alertAudio'.volume = 1
       /\ (lastOp'.op = "startResume") =>
              Count(playPromises', "alertAborted") <= Count(playPromises, "alertAborted")]_vars

\* C20: no alert fires before a verdict exists: while monitoring has not been
\* started ownerAbsent is unset and handleInput is not registered, and as long
\* as ownerAbsent is unset (no cycle has reached its verdict) no alarm status,
\* overlay, overlay timer or alert play() has come about.
C20_NoAlertBeforeVerdict ==
    /\ ~monitoring => (ownerAbsent = "undefined" /\ listeners = <<>>)
    /\ ownerAbsent = "undefined" =>
          /\ status # <<"ALARM">>
          /\ alertOverlay = "unset"
          /\ overlayTimers = 0
          /\ AlertsPending(playPromises) = 0

C20_Witness ==
    /\ lastOp.op = "input"
    /\ lastOp.calls = 1
    /\ monitoring
    /\ isTabVisible
    /\ ownerAbsent = "undefined"

====
